---- MODULE Spec2Model ----
(***************************************************************************)
(* A model of m3u8_to_mp3_converter.py: the playlist resolution, the       *)
(* segment download with retry, the concatenation and the hand-over to    *)
(* the transcoder.                                                         *)
(*                                                                         *)
(* Text is a sequence of tokens.  A token is one character that the code   *)
(* or the URL library looks at ("/", "?", "#", " ", the newline "\n", ".") *)
(* or an opaque run of other characters ("h", "seg", "EXT-X-STREAM-INF").  *)
(* The scheme with its colon is one token ("http:").                       *)
(***************************************************************************)
EXTENDS Integers, Sequences, FiniteSets, TLC

(***************************************************************************)
(* Bounds of the model.                                                    *)
(***************************************************************************)
\* the longest playlist document, in lines
MaxLines == 3
\* frames of download_m3u8_playlist the interpreter's stack holds before a
\* further call raises RecursionError
StackLimit == 7

(***************************************************************************)
(* The state of one run of the script.                                     *)
(***************************************************************************)
VARIABLES
    argv,           \* sys.argv
    pc,             \* where the run is
    m3u8_url,       \* the argument of the running download_m3u8_playlist call
    depth,          \* the nested calls of download_m3u8_playlist
    attempt,        \* the local attempt of the running retry loop
    content,        \* response.text of the playlist fetched last
    segment_urls,   \* what download_m3u8_playlist returned to main
    index,          \* the index of main's loop over segment_urls
    segment_paths,  \* main's list of the segment files
    files,          \* the files of the temporary directory: [path, data]
    temp_dir,       \* "none", "created" or "removed"
    status,         \* the exit status, -1 while the process runs
    printed,        \* the message printed last
    transcoded,     \* the input the transcoder was started on, if it was
    tries,          \* the GETs issued for the running request
    last_request,   \* the GET issued last and how it ended
    requested,      \* the indices of the segments a GET was issued for
    received,       \* the bytes of the segment responses written, in order
    raised,         \* the exception that is being handled, "none" without one
    slept           \* the time.sleep calls of the running retry loop

vars == <<argv, pc, m3u8_url, depth, attempt, content, segment_urls, index,
          segment_paths, files, temp_dir, status, printed, transcoded, tries,
          last_request, requested, received, raised, slept>>

(***************************************************************************)
(* Strings.                                                                *)
(***************************************************************************)
NL == "\n"
SP == " "

\* the least index of a token of s that is in S, Len(s) + 1 when there is none
FirstIdx(s, S) ==
    IF \E i \in 1..Len(s) : s[i] \in S
    THEN CHOOSE i \in 1..Len(s) : s[i] \in S /\ \A j \in 1..(i - 1) : s[j] \notin S
    ELSE Len(s) + 1

\* the greatest index of a token of s that is in S, 0 when there is none
LastIdx(s, S) ==
    IF \E i \in 1..Len(s) : s[i] \in S
    THEN CHOOSE i \in 1..Len(s) : s[i] \in S /\ \A j \in (i + 1)..Len(s) : s[j] \notin S
    ELSE 0

\* s[:n] and s[n:] of Python, n counted from 0
Take(s, n) == SubSeq(s, 1, n)
Drop(s, n) == SubSeq(s, n + 1, Len(s))

\* what precedes the first token of s that is in S, and what follows it
before(s, S) == Take(s, FirstIdx(s, S) - 1)
after(s, S) == Drop(s, FirstIdx(s, S))
\* s from its first token in S on
from(s, S) == Drop(s, FirstIdx(s, S) - 1)

\* str.startswith
startswith(s, prefix) ==
    /\ Len(s) >= Len(prefix)
    /\ Take(s, Len(prefix)) = prefix

\* str.endswith
endswith(s, suffix) ==
    /\ Len(s) >= Len(suffix)
    /\ Drop(s, Len(s) - Len(suffix)) = suffix

\* str.strip: the whitespace at both ends is removed
RECURSIVE lstrip(_)
lstrip(s) == IF s # <<>> /\ Head(s) = SP THEN lstrip(Tail(s)) ELSE s

RECURSIVE rstrip(_)
rstrip(s) == IF s # <<>> /\ s[Len(s)] = SP THEN rstrip(Take(s, Len(s) - 1)) ELSE s

strip(s) == rstrip(lstrip(s))

\* str.split(sep): the pieces between the separators, empty pieces included
RECURSIVE split(_, _)
split(s, sep) ==
    IF FirstIdx(s, {sep}) > Len(s) THEN <<s>>
    ELSE <<before(s, {sep})>> \o split(after(s, {sep}), sep)

\* sep.join(parts)
RECURSIVE join(_, _)
join(parts, sep) ==
    IF parts = <<>> THEN <<>>
    ELSE IF Len(parts) = 1 THEN parts[1]
    ELSE parts[1] \o <<sep>> \o join(Tail(parts), sep)

\* str.splitlines: the lines without their line ends; a final line end opens
\* no further line
dropLastEmpty(pieces) ==
    IF pieces[Len(pieces)] = <<>> THEN Take(pieces, Len(pieces) - 1) ELSE pieces

splitlines(text) == dropLastEmpty(split(text, NL))

\* s.rsplit(sep, 1)[0]: what precedes the last separator, all of s without one
rsplit1_head(s, sep) ==
    IF LastIdx(s, {sep}) = 0 THEN s ELSE Take(s, LastIdx(s, {sep}) - 1)

(***************************************************************************)
(* urllib.parse: urlsplit, urlunsplit and urljoin, on token sequences.     *)
(***************************************************************************)
\* the schemes the model's text can hold, each with its colon
SchemeTokens == {"http:", "https:", "ftp:"}
\* urllib.parse.uses_relative and uses_netloc hold all three, and the empty scheme
uses_relative == SchemeTokens \cup {""}
uses_netloc == SchemeTokens \cup {""}

\* urlsplit, once scheme and netloc are taken off: the fragment follows the
\* first "#", the query the first "?" before it
urlsplit_path(scheme, netloc, rest) ==
    [scheme |-> scheme,
     netloc |-> netloc,
     path |-> before(before(rest, {"#"}), {"?"}),
     query |-> after(before(rest, {"#"}), {"?"}),
     fragment |-> after(rest, {"#"})]

\* urlsplit, once the scheme is taken off: after "//" the netloc runs up to the
\* first "/", "?" or "#"
urlsplit_netloc(scheme, rest) ==
    IF startswith(rest, <<"/", "/">>)
    THEN urlsplit_path(scheme, before(Drop(rest, 2), {"/", "?", "#"}),
                       from(Drop(rest, 2), {"/", "?", "#"}))
    ELSE urlsplit_path(scheme, <<>>, rest)

\* urlsplit(url, scheme): scheme, netloc, path, query and fragment of a URL
urlsplit(url, default_scheme) ==
    IF url # <<>> /\ url[1] \in SchemeTokens
    THEN urlsplit_netloc(url[1], Tail(url))
    ELSE urlsplit_netloc(default_scheme, url)

\* urlunsplit, the path preceded by "//" and the netloc where there is one
urlunsplit_netloc(scheme, netloc, path) ==
    IF \/ netloc # <<>>
       \/ scheme # "" /\ scheme \in uses_netloc /\ ~startswith(path, <<"/", "/">>)
    THEN <<"/", "/">> \o netloc
           \o (IF path # <<>> /\ path[1] # "/" THEN <<"/">> ELSE <<>>) \o path
    ELSE path

\* urlunsplit: the URL of its five parts
urlunsplit(p) ==
    (IF p.scheme # "" THEN <<p.scheme>> ELSE <<>>)
      \o urlunsplit_netloc(p.scheme, p.netloc, p.path)
      \o (IF p.query # <<>> THEN <<"?">> \o p.query ELSE <<>>)
      \o (IF p.fragment # <<>> THEN <<"#">> \o p.fragment ELSE <<>>)

\* filter(None, segments): the empty path segments are dropped
dropEmpty(segments) == SelectSeq(segments, LAMBDA seg : seg # <<>>)

\* the loop of urljoin over the path segments: ".." removes the segment before
\* it, "." is skipped
RECURSIVE removeDots(_, _)
removeDots(segments, resolved_path) ==
    IF segments = <<>> THEN resolved_path
    ELSE IF Head(segments) = <<".", ".">>
         THEN removeDots(Tail(segments),
                         IF resolved_path = <<>> THEN <<>>
                         ELSE Take(resolved_path, Len(resolved_path) - 1))
    ELSE IF Head(segments) = <<".">> THEN removeDots(Tail(segments), resolved_path)
    ELSE removeDots(Tail(segments), Append(resolved_path, Head(segments)))

\* base_parts of urljoin: the segments of the base path without the last one,
\* unless that is empty
urljoin_base_parts(bsplit) ==
    IF bsplit[Len(bsplit)] # <<>> THEN Take(bsplit, Len(bsplit) - 1) ELSE bsplit

\* segments[1:-1] = filter(None, segments[1:-1])
urljoin_filter(joined) ==
    IF Len(joined) <= 2 THEN joined
    ELSE <<joined[1]>> \o dropEmpty(SubSeq(joined, 2, Len(joined) - 1))
           \o <<joined[Len(joined)]>>

\* the segments urljoin resolves: those of an absolute path, or those of the
\* base's directory followed by those of the relative path
urljoin_segments(bpath, path) ==
    IF path[1] = "/" THEN split(path, "/")
    ELSE urljoin_filter(urljoin_base_parts(split(bpath, "/")) \o split(path, "/"))

\* the resolved path: the dot segments removed, a final "." or ".." leaves a
\* final "/", and an empty result is "/"
urljoin_resolved(segments, resolved) ==
    IF segments[Len(segments)] \in {<<".">>, <<".", ".">>}
    THEN (IF join(Append(resolved, <<>>), "/") = <<>> THEN <<"/">>
          ELSE join(Append(resolved, <<>>), "/"))
    ELSE (IF join(resolved, "/") = <<>> THEN <<"/">> ELSE join(resolved, "/"))

urljoin_path(segments) == urljoin_resolved(segments, removeDots(segments, <<>>))

\* urljoin for a base b and a reference u that are split
urljoin_split(url, b, u) ==
    IF u.scheme # b.scheme \/ u.scheme \notin uses_relative THEN url
    ELSE IF u.scheme \in uses_netloc /\ u.netloc # <<>> THEN urlunsplit(u)
    ELSE IF u.path = <<>>
         THEN urlunsplit([scheme |-> u.scheme, netloc |-> b.netloc, path |-> b.path,
                          query |-> IF u.query = <<>> THEN b.query ELSE u.query,
                          fragment |-> u.fragment])
    ELSE urlunsplit([scheme |-> u.scheme, netloc |-> b.netloc,
                     path |-> urljoin_path(urljoin_segments(b.path, u.path)),
                     query |-> u.query, fragment |-> u.fragment])

urljoin_base(url, b) == urljoin_split(url, b, urlsplit(url, b.scheme))

\* urljoin(base, url)
urljoin(base, url) ==
    IF base = <<>> THEN url
    ELSE IF url = <<>> THEN base
    ELSE urljoin_base(url, urlsplit(base, ""))

\* os.path.splitext(path)[1]: the last dot of the last path component and what
\* follows it, empty when that component has no dot or only leading dots
splitext_name(name, d) ==
    IF d = 0 \/ \A j \in 1..d : name[j] = "." THEN <<>> ELSE Drop(name, d - 1)

splitext_basename(name) == splitext_name(name, LastIdx(name, {"."}))

splitext_ext(path) == splitext_basename(Drop(path, LastIdx(path, {"/"})))

(***************************************************************************)
(* The playlist parser.                                                    *)
(***************************************************************************)
\* the prefix '#EXT-X-STREAM-INF' that the code looks for
STREAM_INF == <<"#", "EXT-X-STREAM-INF">>

\* Python's None and a value that is not None
None == <<>>
Some(v) == <<v>>

\* is_master_playlist(m3u8_content)
is_master_lines(lines) == \E i \in 1..Len(lines) : startswith(lines[i], STREAM_INF)

is_master_playlist(m3u8_content) == is_master_lines(splitlines(m3u8_content))

\* the stream-info lines that have a line after them ("if i + 1 < len(lines)")
variant_hits(lines) ==
    {i \in 1..Len(lines) : startswith(lines[i], STREAM_INF) /\ i + 1 <= Len(lines)}

\* the loop of select_variant_playlist returns at the first of them
first_hit(lines) ==
    CHOOSE k \in variant_hits(lines) : \A j \in variant_hits(lines) : k <= j

select_variant_lines(lines, base_url) ==
    IF variant_hits(lines) = {} THEN None
    ELSE Some(urljoin(base_url, strip(lines[first_hit(lines) + 1])))

\* select_variant_playlist(m3u8_content, base_url): the first stream-info line
\* that has a line after it decides; that line, stripped, is joined to base_url
select_variant_playlist(m3u8_content, base_url) ==
    select_variant_lines(splitlines(m3u8_content), base_url)

\* "not variant_url": None and the empty string are false
falsy(v) == v = None \/ v[1] = <<>>

\* only the blank lines are skipped
skipped_blank_only(line) == line = <<>>

\* the lines of a media playlist that the loop skips, once stripped
skipped(line) == line = <<>> \/ startswith(line, <<"#">>)

\* the references joined to the URL the script was started with
RECURSIVE parse_segments_top(_, _)
parse_segments_top(lines, m3u8_url_) ==
    IF lines = <<>> THEN <<>>
    ELSE (IF skipped(strip(Head(lines))) THEN <<>>
          ELSE <<urljoin(argv[2], strip(Head(lines)))>>)
           \o parse_segments_top(Tail(lines), m3u8_url_)

\* the loop of download_m3u8_playlist over the lines of a media playlist
RECURSIVE parse_segments(_, _)
parse_segments(lines, m3u8_url_) ==
    IF lines = <<>> THEN <<>>
    ELSE (IF skipped(strip(Head(lines))) THEN <<>>
          ELSE <<urljoin(m3u8_url_, strip(Head(lines)))>>)
           \o parse_segments(Tail(lines), m3u8_url_)

\* base_url = m3u8_url.rsplit('/', 1)[0] + '/'
base_url_of(m3u8_url_) == rsplit1_head(m3u8_url_, "/") \o <<"/">>

(***************************************************************************)
(* What the environment can supply: command lines, playlist documents and  *)
(* segment responses.                                                      *)
(***************************************************************************)
StartUrl == <<"http:", "/", "/", "h", "/", "a", "/", "p">>
BadUrl == <<"ftp:", "/", "/", "h", "/", "a", "/", "p">>
OutMp3 == <<"out", ".", "mp3">>
OutWav == <<"out", ".", "wav">>

Argvs == {<<<<"prog">>, u, o>> : u \in {StartUrl, BadUrl}, o \in {OutMp3, OutWav}}
            \cup {<<<<"prog">>, StartUrl>>}

\* the lines a playlist document is made of
LineStreamInf == <<"#", "EXT-X-STREAM-INF", ":BANDWIDTH=1">>
LineComment == <<"#", "EXTINF">>
LineBlank == <<SP>>
LineRel == <<SP, "s", ".", "m4a", SP>>
\* an absolute reference to a URL without a path
LineAbs == <<"http:", "/", "/", "o">>
Lines == {LineStreamInf, LineComment, LineBlank, LineRel, LineAbs}

LineSeqs == UNION {[1..n -> Lines] : n \in 0..MaxLines}

\* the text of a document: every line with its line end
RECURSIVE TextOf(_)
TextOf(ls) == IF ls = <<>> THEN <<>> ELSE Head(ls) \o <<NL>> \o TextOf(Tail(ls))

Docs == {TextOf(ls) : ls \in LineSeqs}

\* response headers are a set of <<name, value>>
AudioHeaders == {<<"Content-Type", <<"audio", "/", "aac">>>>}
OtherHeaders == {<<"Content-Type", <<"video", "/", "mp2t">>>>}
HeaderSets == {AudioHeaders, OtherHeaders, {}}

\* a response body is the sequence of chunks iter_content yields
Bodies == {<<<<"A">>>>, <<<<"B">>, <<>>, <<"C">>>>}

\* the bytes the loop over iter_content writes: the chunks that are not empty
RECURSIVE written(_)
written(chunks) ==
    IF chunks = <<>> THEN <<>>
    ELSE (IF Head(chunks) # <<>> THEN Head(chunks) ELSE <<>>) \o written(Tail(chunks))

\* ext or '.ts'
or_ts(ext) == IF ext # <<>> THEN ext ELSE <<".", "ts">>

\* the extension download_segment gives the segment file
extension(headers, segment_url) ==
    IF \E h \in headers : h[1] = "Content-Type"
    THEN LET content_type == (CHOOSE h \in headers : h[1] = "Content-Type")[2]
         IN  IF \E k \in 1..Len(content_type) : content_type[k] = "audio"
             THEN <<".", "aac">> ELSE <<".", "ts">>
    ELSE or_ts(splitext_ext(urlsplit(segment_url, "").path))

\* a file name without the index
segment_path_of_noindex(index_, ext) == <<"segment_", 1, ext>>

\* the files of audio type all get the first index
segment_path_of_audio(index_, ext) ==
    <<"segment_", IF ext = <<".", "aac">> THEN 1 ELSE index_, ext>>

\* os.path.join(temp_dir, f"segment_{index:05d}{ext}")
segment_path_of(index_, ext) == <<"segment_", index_, ext>>
\* os.path.join(temp_dir, "concatenated.aac")
concatenated_path == <<"concatenated", 0, <<".", "aac">>>>

\* one attempt more
max_attempts_four == 3 + 1

\* max_attempts of download_m3u8_playlist and of download_segment
max_attempts == 3

\* the except clause never gives up
retries_exhausted_never(attempt_) == FALSE

\* "if attempt == max_attempts" in the except clause of a retry loop
retries_exhausted(attempt_) == attempt_ = max_attempts

\* the argument of time.sleep in the except clause of a retry loop
sleep_seconds == 2

\* a wait that grows with the attempts made
time_sleep_growing(slept_, attempt_) == Append(slept_, sleep_seconds * attempt_)

\* time.sleep(2): the waits of the running retry loop and one more
time_sleep(slept_, attempt_) == Append(slept_, sleep_seconds)

NoRequest == [kind |-> "none", url |-> <<>>, ok |-> FALSE, n |-> 0]

Init ==
    /\ argv \in Argvs
    /\ pc = "main"
    /\ m3u8_url = <<>>
    /\ depth = 0
    /\ attempt = 0
    /\ content = <<>>
    /\ segment_urls = <<>>
    /\ index = 0
    /\ segment_paths = <<>>
    /\ files = {}
    /\ temp_dir = "none"
    /\ status = -1
    /\ printed = "nothing"
    /\ transcoded = None
    /\ tries = 0
    /\ last_request = NoRequest
    /\ requested = {}
    /\ received = <<>>
    /\ raised = "none"
    /\ slept = <<>>

\* an exit that leaves the temporary directory and its files behind
sys_exit_leaving(code, message) ==
    /\ pc' = "exited"
    /\ status' = code
    /\ printed' = message
    /\ UNCHANGED <<temp_dir, files>>

\* sys.exit(code) after print(message): SystemExit passes "except Exception",
\* the with block removes the temporary directory, the process ends
sys_exit(code, message) ==
    /\ pc' = "exited"
    /\ status' = code
    /\ printed' = message
    /\ temp_dir' = IF temp_dir = "created" THEN "removed" ELSE temp_dir
    /\ files' = {}

\* the exception is reported, the status stays zero
caught_exception_zero == sys_exit(0, "An error occurred")

\* an exception that is no SystemExit reaches main's "except Exception"
caught_exception == sys_exit(1, "An error occurred")

\* main without the test of the output file's name
Main_unchecked ==
    /\ pc = "main"
    /\ IF Len(argv) # 3
       THEN /\ sys_exit(1, "Usage")
            /\ UNCHANGED <<m3u8_url, depth, attempt, tries>>
       ELSE IF /\ ~startswith(argv[2], <<"http:", "/", "/">>)
               /\ ~startswith(argv[2], <<"https:", "/", "/">>)
       THEN /\ sys_exit(1, "Invalid URL provided")
            /\ UNCHANGED <<m3u8_url, depth, attempt, tries>>
       ELSE /\ temp_dir' = "created"
            /\ files' = {}
            /\ m3u8_url' = argv[2]
            /\ depth' = 1
            /\ attempt' = 0
            /\ tries' = 0
            /\ pc' = "playlist_get"
            /\ printed' = "Downloading m3u8 playlist"
            /\ UNCHANGED status
    /\ UNCHANGED <<argv, content, segment_urls, index, segment_paths, transcoded,
                   last_request, requested, received, raised, slept>>

\* main up to the call of download_m3u8_playlist
Main ==
    /\ pc = "main"
    /\ IF Len(argv) # 3
       THEN /\ sys_exit(1, "Usage")
            /\ UNCHANGED <<m3u8_url, depth, attempt, tries>>
       ELSE IF /\ ~startswith(argv[2], <<"http:", "/", "/">>)
               /\ ~startswith(argv[2], <<"https:", "/", "/">>)
       THEN /\ sys_exit(1, "Invalid URL provided")
            /\ UNCHANGED <<m3u8_url, depth, attempt, tries>>
       ELSE IF ~endswith(argv[3], <<".", "mp3">>)
       THEN /\ sys_exit(1, "Output file must have .mp3 extension")
            /\ UNCHANGED <<m3u8_url, depth, attempt, tries>>
       ELSE /\ temp_dir' = "created"
            /\ files' = {}
            /\ m3u8_url' = argv[2]
            /\ depth' = 1
            /\ attempt' = 0
            /\ tries' = 0
            /\ pc' = "playlist_get"
            /\ printed' = "Downloading m3u8 playlist"
            /\ UNCHANGED status
    /\ UNCHANGED <<argv, content, segment_urls, index, segment_paths, transcoded,
                   last_request, requested, received, raised, slept>>

\* requests.get or raise_for_status raises a RequestException
PlaylistGetFails ==
    /\ pc = "playlist_get"
    /\ tries' = tries + 1
    /\ attempt' = attempt + 1
    /\ last_request' = [kind |-> "playlist", url |-> m3u8_url, ok |-> FALSE,
                        n |-> tries + 1]
    /\ raised' = "RequestException"
    /\ IF retries_exhausted(attempt + 1)
       THEN sys_exit(1, "Error fetching m3u8 playlist")
       ELSE /\ pc' = "playlist_sleep"
            /\ printed' = "Error fetching m3u8 playlist"
            /\ UNCHANGED <<files, temp_dir, status>>
    /\ UNCHANGED <<argv, m3u8_url, depth, content, segment_urls, index,
                   segment_paths, transcoded, requested, received, slept>>

\* time.sleep(2), then the test of the while loop; a loop left without a
\* response makes "response.text" raise UnboundLocalError
PlaylistSleep ==
    /\ pc = "playlist_sleep"
    /\ slept' = time_sleep(slept, attempt)
    /\ IF attempt < max_attempts
       THEN /\ pc' = "playlist_get"
            /\ raised' = "none"
            /\ UNCHANGED <<files, temp_dir, status, printed>>
       ELSE /\ caught_exception
            /\ raised' = "UnboundLocalError"
    /\ UNCHANGED <<argv, m3u8_url, depth, attempt, content, segment_urls, index,
                   segment_paths, transcoded, tries, last_request, requested,
                   received>>

\* requests.get answers with a success status: the loop is left
PlaylistGetSucceeds ==
    /\ pc = "playlist_get"
    /\ \E doc \in Docs : content' = doc
    /\ tries' = tries + 1
    /\ last_request' = [kind |-> "playlist", url |-> m3u8_url, ok |-> TRUE,
                        n |-> tries + 1]
    /\ pc' = "playlist_parse"
    /\ UNCHANGED <<argv, m3u8_url, depth, attempt, segment_urls, index,
                   segment_paths, files, temp_dir, status, printed, transcoded,
                   requested, received, raised, slept>>

\* no exit without a variant: the call is made all the same
master_outcome_noexit(variant_url) ==
    [kind |-> "recurse", urls |-> IF variant_url = None THEN <<<<>>>> ELSE variant_url,
     message |-> "Selected variant playlist"]

\* an empty list is returned like any other
media_outcome_nocheck(segment_urls_) ==
    [kind |-> "return", urls |-> segment_urls_, message |-> "Found segments"]

\* download_m3u8_playlist after its retry loop: what it does with the text
\* fetched from m3u8_url_
\*   "exit"    print the message and sys.exit(1)
\*   "recurse" return download_m3u8_playlist(urls[1])
\*   "return"  return urls
master_outcome(variant_url) ==
    IF falsy(variant_url)
    THEN [kind |-> "exit", urls |-> <<>>, message |-> "No variant playlists found"]
    ELSE [kind |-> "recurse", urls |-> <<variant_url[1]>>,
          message |-> "Selected variant playlist"]

media_outcome(segment_urls_) ==
    IF segment_urls_ = <<>>
    THEN [kind |-> "exit", urls |-> <<>>, message |-> "No audio segments found"]
    ELSE [kind |-> "return", urls |-> segment_urls_, message |-> "Found segments"]

download_m3u8_playlist_body(content_, m3u8_url_) ==
    IF is_master_playlist(content_)
    THEN master_outcome(select_variant_playlist(content_, base_url_of(m3u8_url_)))
    ELSE media_outcome(parse_segments(splitlines(content_), m3u8_url_))

\* the first segment goes on with the counter the playlist fetch left
main_loop_start_keep(segment_urls_) ==
    /\ segment_urls' = segment_urls_
    /\ m3u8_url' = <<>>
    /\ depth' = 0
    /\ attempt' = attempt
    /\ tries' = 0
    /\ slept' = <<>>
    /\ IF segment_urls_ = <<>>
       THEN /\ pc' = "concatenate"
            /\ printed' = "Concatenating segments"
            /\ index' = index
       ELSE /\ pc' = "segment_get"
            /\ printed' = "Downloading segment"
            /\ index' = 1
    /\ UNCHANGED <<files, temp_dir, status, raised>>

\* main's loop over segment_urls_ starts: the first call of download_segment,
\* or concatenate_segments when there is nothing to loop over
main_loop_start(segment_urls_) ==
    /\ segment_urls' = segment_urls_
    /\ m3u8_url' = <<>>
    /\ depth' = 0
    /\ attempt' = 0
    /\ tries' = 0
    /\ slept' = <<>>
    /\ IF segment_urls_ = <<>>
       THEN /\ pc' = "concatenate"
            /\ printed' = "Concatenating segments"
            /\ index' = index
       ELSE /\ pc' = "segment_get"
            /\ printed' = "Downloading segment"
            /\ index' = 1
    /\ UNCHANGED <<files, temp_dir, status, raised>>

\* the recursive call; one call more than the stack holds raises RecursionError
recursive_call(variant_url, message) ==
    IF depth >= StackLimit
    THEN /\ caught_exception
         /\ raised' = "RecursionError"
         /\ UNCHANGED <<m3u8_url, depth, attempt, tries, segment_urls, index, slept>>
    ELSE /\ m3u8_url' = variant_url
         /\ depth' = depth + 1
         /\ attempt' = 0
         /\ tries' = 0
         /\ slept' = <<>>
         /\ pc' = "playlist_get"
         /\ printed' = message
         /\ UNCHANGED <<files, temp_dir, status, segment_urls, index, raised>>

playlist_step(r) ==
    CASE r.kind = "exit" ->
           /\ sys_exit(1, r.message)
           /\ UNCHANGED <<m3u8_url, depth, attempt, tries, segment_urls, index,
                          raised, slept>>
      [] r.kind = "recurse" -> recursive_call(r.urls[1], r.message)
      [] r.kind = "return" -> main_loop_start(r.urls)

\* the rest of download_m3u8_playlist, and for a media playlist main up to the
\* first call of download_segment
PlaylistParse ==
    /\ pc = "playlist_parse"
    /\ playlist_step(download_m3u8_playlist_body(content, m3u8_url))
    /\ content' = <<>>
    /\ UNCHANGED <<argv, segment_paths, transcoded, last_request, requested, received>>

\* a write that leaves no file
put_lost(files_, path, data) == files_

\* the files of the temporary directory
put(files_, path, data) ==
    {f \in files_ : f.path # path} \cup {[path |-> path, data |-> data]}
read(files_, path) == (CHOOSE f \in files_ : f.path = path).data
exists(files_, path) == \E f \in files_ : f.path = path

\* all the bytes of a response body
RECURSIVE body_bytes(_)
body_bytes(chunks) ==
    IF chunks = <<>> THEN <<>> ELSE Head(chunks) \o body_bytes(Tail(chunks))

\* a skipped segment instead of the exit: main goes on with the next one
segment_retries_skip ==
    /\ attempt' = 0
    /\ tries' = 0
    /\ IF index < Len(segment_urls)
       THEN /\ index' = index + 1
            /\ pc' = "segment_get"
            /\ printed' = "Downloading segment"
       ELSE /\ index' = index
            /\ pc' = "concatenate"
            /\ printed' = "Concatenating segments"
    /\ UNCHANGED <<files, temp_dir, status>>

\* "if attempt == max_attempts: sys.exit(1)" of download_segment
segment_retries_exhausted ==
    /\ attempt' = attempt + 1
    /\ tries' = tries + 1
    /\ sys_exit(1, "Error downloading segment")
    /\ UNCHANGED index

\* session.get or raise_for_status raises a RequestException
SegmentGetFails ==
    /\ pc = "segment_get"
    /\ requested' = requested \cup {index}
    /\ last_request' = [kind |-> "segment", url |-> segment_urls[index],
                        ok |-> FALSE, n |-> tries + 1]
    /\ raised' = "RequestException"
    /\ IF retries_exhausted(attempt + 1)
       THEN segment_retries_exhausted
       ELSE /\ attempt' = attempt + 1
            /\ tries' = tries + 1
            /\ pc' = "segment_sleep"
            /\ printed' = "Error downloading segment"
            /\ UNCHANGED <<files, temp_dir, status, index>>
    /\ UNCHANGED <<argv, m3u8_url, depth, content, segment_urls,
                   segment_paths, transcoded, received, slept>>

\* time.sleep(2), then the test of the while loop; a loop left without a
\* response makes "response.headers" raise UnboundLocalError
SegmentSleep ==
    /\ pc = "segment_sleep"
    /\ slept' = time_sleep(slept, attempt)
    /\ IF attempt < max_attempts
       THEN /\ pc' = "segment_get"
            /\ raised' = "none"
            /\ UNCHANGED <<files, temp_dir, status, printed>>
       ELSE /\ caught_exception
            /\ raised' = "UnboundLocalError"
    /\ UNCHANGED <<argv, m3u8_url, depth, attempt, content, segment_urls, index,
                   segment_paths, transcoded, tries, last_request, requested,
                   received>>

\* the rest of download_segment after its retry loop, and main up to the next
\* call of download_segment or of concatenate_segments.  The body is written in
\* full ("written"), or open or write raises IOError, or reading the streamed
\* body raises a RequestException, which is an IOError
write_segment(segment_path, body, outcome) ==
    IF outcome # "written"
    THEN /\ sys_exit(1, "Error writing segment")
         /\ raised' = IF outcome = "IOError" THEN "IOError" ELSE "RequestException"
         /\ UNCHANGED <<segment_paths, received, index, attempt>>
    ELSE /\ files' = put(files, segment_path, written(body))
         /\ segment_paths' = Append(segment_paths, segment_path)
         /\ received' = Append(received, body_bytes(body))
         /\ attempt' = 0
         /\ IF index < Len(segment_urls)
            THEN /\ index' = index + 1
                 /\ pc' = "segment_get"
                 /\ printed' = "Downloading segment"
            ELSE /\ index' = index
                 /\ pc' = "concatenate"
                 /\ printed' = "Concatenating segments"
         /\ UNCHANGED <<temp_dir, status, raised>>

\* session.get answers with a success status: the loop is left
SegmentGetSucceeds ==
    /\ pc = "segment_get"
    /\ requested' = requested \cup {index}
    /\ last_request' = [kind |-> "segment", url |-> segment_urls[index],
                        ok |-> TRUE, n |-> tries + 1]
    /\ \E headers \in HeaderSets, body \in Bodies,
          outcome \in {"written", "IOError", "stream error"} :
          write_segment(segment_path_of(index, extension(headers, segment_urls[index])),
                        body, outcome)
    /\ tries' = 0
    /\ slept' = <<>>
    /\ UNCHANGED <<argv, m3u8_url, depth, content, segment_urls, transcoded>>

\* what concatenate_segments writes: the data of the files, in the list's order
RECURSIVE concatenate_segments(_, _)
concatenate_segments(segment_paths_, files_) ==
    IF segment_paths_ = <<>> THEN <<>>
    ELSE read(files_, Head(segment_paths_))
           \o concatenate_segments(Tail(segment_paths_), files_)

\* concatenate_segments(segment_paths, concatenated_path), or its IOError
Concatenate ==
    /\ pc = "concatenate"
    /\ \E ok \in BOOLEAN :
          IF ok
          THEN /\ files' = put(files, concatenated_path,
                               concatenate_segments(segment_paths, files))
               /\ pc' = "convert"
               /\ printed' = "Converting to MP3"
               /\ UNCHANGED <<temp_dir, status, raised>>
          ELSE /\ sys_exit(1, "Error concatenating segments")
               /\ raised' = "IOError"
    /\ UNCHANGED <<argv, m3u8_url, depth, attempt, content, segment_urls, index,
                   segment_paths, transcoded, tries, last_request, requested,
                   received, slept>>

\* convert_to_mp3(concatenated_path, output_mp3) and the end of main
Convert ==
    /\ pc = "convert"
    /\ \E outcome \in {"ok", "CalledProcessError", "FileNotFoundError"} :
          /\ transcoded' = IF outcome = "FileNotFoundError" THEN transcoded
                           ELSE Some(read(files, concatenated_path))
          /\ raised' = IF outcome = "ok" THEN raised ELSE outcome
          /\ CASE outcome = "ok" -> sys_exit(0, "MP3 file saved")
               [] outcome = "CalledProcessError" -> sys_exit(1, "Error converting to MP3")
               [] outcome = "FileNotFoundError" -> sys_exit(1, "FFmpeg is not installed")
    /\ UNCHANGED <<argv, m3u8_url, depth, attempt, content, segment_urls, index,
                   segment_paths, tries, last_request, requested, received, slept>>

Next ==
    \/ Main
    \/ PlaylistGetFails
    \/ PlaylistSleep
    \/ PlaylistGetSucceeds
    \/ PlaylistParse
    \/ SegmentGetFails
    \/ SegmentSleep
    \/ SegmentGetSucceeds
    \/ Concatenate
    \/ Convert

Spec == Init /\ [][Next]_vars

(***************************************************************************)
(* The claims.                                                             *)
(***************************************************************************)
FetchErrors == {"Error fetching m3u8 playlist", "Error downloading segment"}

\* the sequences of a sequence, one after the other
RECURSIVE Flatten(_)
Flatten(seqs) == IF seqs = <<>> THEN <<>> ELSE Head(seqs) \o Flatten(Tail(seqs))

\* C1: a request, of a playlist or of a segment, is issued at most 3 times; a
\* run that ends on a fetch error ends with status 1 after exactly 3 failed
\* attempts of the request; a playlist that is being parsed and a segment that
\* was written come from an attempt that succeeded, the third one included,
\* and the run goes on.
C1_AtMostThreeAttempts ==
    /\ tries <= 3
    /\ last_request.n <= 3
    /\ pc = "exited" /\ printed \in FetchErrors =>
          /\ status = 1
          /\ last_request.n = 3
          /\ ~last_request.ok
          /\ attempt = 3
    /\ pc = "playlist_parse" =>
          /\ last_request = [kind |-> "playlist", url |-> m3u8_url, ok |-> TRUE,
                             n |-> attempt + 1]
          /\ status = -1
    /\ last_request.kind = "segment" /\ last_request.ok /\ pc # "exited" =>
          /\ status = -1
          /\ Len(received) \in requested

\* C1: the third attempt of a playlist succeeded after two failures
C1_Witness ==
    /\ pc = "playlist_parse"
    /\ attempt = 2
    /\ tries = 3
    /\ last_request.ok

\* C2: a run in which the retries of segment k are exhausted ends there: no
\* segment after k was requested, nothing was concatenated, the transcoder was
\* not started.  Concatenation and the transcoder only come after all the
\* segments of the list are requested, received and written.
C2_FailFast ==
    /\ pc = "exited" /\ printed = "Error downloading segment" =>
          /\ status = 1
          /\ requested = 1..index
          /\ Len(segment_paths) = index - 1
          /\ last_request = [kind |-> "segment", url |-> segment_urls[index],
                             ok |-> FALSE, n |-> 3]
          /\ transcoded = None
          /\ ~ENABLED Next
    /\ pc \in {"concatenate", "convert"} \/ transcoded # None =>
          /\ requested = 1..Len(segment_urls)
          /\ Len(segment_paths) = Len(segment_urls)
          /\ Len(received) = Len(segment_urls)
    /\ exists(files, concatenated_path) => pc = "convert"
    /\ transcoded # None => transcoded[1] = Flatten(received)

\* C2: the second segment of a list of three ran out of attempts
C2_Witness ==
    /\ pc = "exited"
    /\ printed = "Error downloading segment"
    /\ index = 2
    /\ Len(segment_urls) = 3

\* C3 (as claimed): download_m3u8_playlist follows at most 5 hops from a master
\* playlist to a variant, so at most 6 calls are nested.
C3_HopsCapped == depth - 1 <= 5

\* C4: the file of the i-th segment carries the index i, and what
\* concatenate_segments writes, and the transcoder reads, is the bodies of
\* the responses for the segments 1..N, in this order and with nothing between.
C4_OrderedStream ==
    /\ \A i \in 1..Len(segment_paths) : segment_paths[i][2] = i
    /\ Len(received) = Len(segment_paths)
    /\ pc \in {"segment_get", "segment_sleep"} => Len(received) = index - 1
    /\ pc = "convert" =>
          /\ Len(received) = Len(segment_urls)
          /\ read(files, concatenated_path) = Flatten(received)
    /\ transcoded # None => transcoded[1] = Flatten(received)

\* C4: three segments with different bodies are concatenated
C4_Witness ==
    /\ pc = "convert"
    /\ Len(received) = 3
    /\ received[1] # received[2]
    /\ received[2] # received[3]

\* the lines of a document
LinesOf(text) == splitlines(text)

\* a line without its whitespace
NonSpace(line) == SelectSeq(line, LAMBDA t : t # SP)
IsBlank(line) == NonSpace(line) = <<>>
IsTag(line) == ~IsBlank(line) /\ NonSpace(line)[1] = "#"
\* a line that is neither blank nor a tag
UriLine(line) == ~IsBlank(line) /\ ~IsTag(line)
StreamInfLine(line) == startswith(line, STREAM_INF)
IsMaster(ls) == \E i \in 1..Len(ls) : StreamInfLine(ls[i])

\* the least element of a set of numbers
Min(S) == CHOOSE k \in S : \A j \in S : k <= j

\* the stream-info lines immediately followed by a URI line
Renditions(ls) ==
    {i \in 1..(Len(ls) - 1) : StreamInfLine(ls[i]) /\ UriLine(ls[i + 1])}

\* C5 (as claimed): a master playlist with a stream-info line immediately
\* followed by a URI line makes the resolution go on with the first such URI,
\* joined to the base URL of the playlist.
C5_FirstRenditionFollowed ==
    [][pc = "playlist_parse" /\ depth < StackLimit =>
          LET ls == LinesOf(content)
          IN  Renditions(ls) # {} =>
                 /\ pc' = "playlist_get"
                 /\ m3u8_url' = urljoin(base_url_of(m3u8_url),
                                        strip(ls[Min(Renditions(ls)) + 1]))]_vars

\* C6: the segment fetcher never gets an empty list.  A playlist without a
\* stream-info line and without a URI line ends the run with status 1 and the
\* message that no segments were found; in such a run no segment was requested,
\* nothing was concatenated and the transcoder was not started.
C6_NoSegments ==
    /\ [](/\ pc \in {"segment_get", "segment_sleep", "concatenate", "convert"} =>
                segment_urls # <<>>
          /\ requested # {} \/ transcoded # None \/ exists(files, concatenated_path) =>
                segment_urls # <<>>
          /\ printed = "No audio segments found" =>
                /\ pc = "exited"
                /\ status = 1
                /\ segment_urls = <<>>
                /\ requested = {}
                /\ transcoded = None
                /\ files = {}
                /\ ~ENABLED Next)
    /\ [][pc = "playlist_parse" =>
             LET ls == LinesOf(content)
             IN  ~IsMaster(ls) /\ (\A i \in 1..Len(ls) : ~UriLine(ls[i])) =>
                    /\ pc' = "exited"
                    /\ status' = 1
                    /\ printed' = "No audio segments found"
                    /\ segment_urls' = <<>>]_vars

\* C6: a media playlist of comments and blank lines, reached through a master
\* playlist, ended the run
C6_Witness ==
    /\ pc = "exited"
    /\ printed = "No audio segments found"
    /\ depth = 2

\* the URI lines of a document, in its order
Kept(ls) == SelectSeq(ls, UriLine)

\* C7: a media playlist with N >= 1 lines that are neither blank nor start
\* with '#' gives a segment list of exactly N entries, the k-th of which is
\* the k-th such line, trimmed and resolved.
C7_OneEntryPerLine ==
    [][pc = "playlist_parse" =>
          LET ls == LinesOf(content)
              kept == Kept(ls)
          IN  ~IsMaster(ls) /\ Len(kept) >= 1 =>
                 /\ pc' = "segment_get"
                 /\ Len(segment_urls') = Len(kept)
                 /\ \A k \in 1..Len(segment_urls') :
                       segment_urls'[k] = urljoin(m3u8_url, strip(kept[k]))]_vars

\* C7: a list of three entries, not all the same, came out of a playlist
C7_Witness ==
    /\ pc = "segment_get"
    /\ index = 1
    /\ tries = 0
    /\ Len(segment_urls) = 3
    /\ segment_urls[1] # segment_urls[2]

\* C8: the segments of a media playlist that was reached through a master
\* playlist are resolved against the URL this media playlist was requested
\* from.
C8_CurrentDocumentBase ==
    [][pc = "playlist_parse" /\ depth >= 2 /\ pc' = "segment_get" =>
          LET kept == Kept(LinesOf(content))
          IN  \A k \in 1..Len(segment_urls') :
                 segment_urls'[k] = urljoin(last_request.url, strip(kept[k]))]_vars

\* C8: a relative reference was resolved against the variant's host, not
\* against the host of the URL of the command line
C8_Witness ==
    /\ pc = "segment_get"
    /\ argv[2] = StartUrl
    /\ segment_urls[1] = <<"http:", "/", "/", "o", "/", "s", ".", "m4a">>
    /\ urljoin(argv[2], <<"s", ".", "m4a">>) # segment_urls[1]

\* the URI line that follows line i: the next line that is neither blank nor a
\* tag, if there is one
NextUriLines(ls, i) == {j \in (i + 1)..Len(ls) : UriLine(ls[j])}
StreamInfWithUri(ls) ==
    {i \in 1..Len(ls) : StreamInfLine(ls[i]) /\ NextUriLines(ls, i) # {}}

\* C9 (as claimed): the URI of a stream-info line is the next line that is
\* neither blank nor a tag; a master playlist is left for the URI of one of its
\* stream-info lines, and without such a URI no playlist is requested.
C9_NextNonSkippedLine ==
    [][pc = "playlist_parse" /\ depth < StackLimit =>
          LET ls == LinesOf(content)
          IN  IsMaster(ls) =>
                 IF StreamInfWithUri(ls) = {}
                 THEN pc' = "exited"
                 ELSE /\ pc' = "playlist_get"
                      /\ \E i \in StreamInfWithUri(ls) :
                            m3u8_url' = urljoin(base_url_of(m3u8_url),
                                               strip(ls[Min(NextUriLines(ls, i))]))]_vars

C11_TempDirRemoved ==
    /\ pc = "exited" => temp_dir \in {"none", "removed"} /\ files = {}
    /\ temp_dir = "created" <=> pc \notin {"main", "exited"}
    /\ temp_dir = "removed" => pc = "exited"
    /\ files # {} => temp_dir = "created"

\* C11: a run that wrote a segment file and ended on a write error of the
\* next one left no directory behind
C11_Witness ==
    /\ pc = "exited"
    /\ printed = "Error writing segment"
    /\ segment_paths # <<>>
    /\ temp_dir = "removed"

InvalidInput == {"Invalid URL provided", "Output file must have .mp3 extension"}

valid_url(url) ==
    \/ startswith(url, <<"http:", "/", "/">>)
    \/ startswith(url, <<"https:", "/", "/">>)

\* C12: a run given a URL that starts with neither http:// nor https://, or
\* an output path that does not end with .mp3, ends at once with status 1:
\* no request was issued and no temporary directory was created.  A request
\* is only issued, and the directory only created, for valid input.
C12_ValidationFirst ==
    /\ pc = "exited" /\ printed \in InvalidInput =>
          /\ status = 1
          /\ last_request = NoRequest
          /\ requested = {}
          /\ tries = 0
          /\ temp_dir = "none"
          /\ ~ENABLED Next
    /\ Len(argv) = 3 /\ pc # "main"
           /\ (~valid_url(argv[2]) \/ ~endswith(argv[3], <<".", "mp3">>)) =>
          pc = "exited" /\ printed \in InvalidInput
    /\ last_request # NoRequest \/ temp_dir # "none" =>
          /\ Len(argv) = 3
          /\ valid_url(argv[2])
          /\ endswith(argv[3], <<".", "mp3">>)

\* C12: a run with a good URL and an output path without .mp3 has ended
C12_Witness ==
    /\ pc = "exited"
    /\ Len(argv) = 3
    /\ valid_url(argv[2])
    /\ ~endswith(argv[3], <<".", "mp3">>)
    /\ printed = "Output file must have .mp3 extension"

FailureMessages ==
    InvalidInput \cup FetchErrors \cup
    {"Usage", "No variant playlists found", "No audio segments found",
     "Error writing segment", "Error concatenating segments",
     "Error converting to MP3", "FFmpeg is not installed", "An error occurred"}

\* C13: a run ends with status 0 or 1 and a message.  It ends with status 0
\* exactly when the confirmation is the message printed last, and exactly
\* when the transcoder was started and nothing was raised; every other end,
\* whatever the failure, has status 1 and one of the failure messages.
C13_ExitBehaviour ==
    /\ status \in {-1, 0, 1}
    /\ pc = "exited" <=> status # -1
    /\ pc = "exited" => ~ENABLED Next
    /\ status = 1 => printed \in FailureMessages
    /\ status = 0 <=> pc = "exited" /\ printed = "MP3 file saved"
    /\ status = 0 <=> pc = "exited" /\ transcoded # None /\ raised = "none"
    /\ pc = "exited" /\ raised # "none" => status = 1
    /\ printed = "FFmpeg is not installed" => transcoded = None /\ status = 1

\* C13: the transcoder was started on the stream of two segments or more and
\* succeeded
C13_Witness ==
    /\ pc = "exited"
    /\ status = 0
    /\ printed = "MP3 file saved"
    /\ Len(received) >= 2
    /\ transcoded = Some(Flatten(received))

\* C14: a run that ends on a transport error of a segment download, raised by
\* the request or while the streamed body is read, ends after the third
\* attempt of that request and not before.
C14_RetryCoversBody ==
    pc = "exited" /\ raised = "RequestException" /\ last_request.kind = "segment" =>
       last_request.n = max_attempts

GetStates == {"playlist_get", "segment_get"}
SleepStates == {"playlist_sleep", "segment_sleep"}

\* C15: every wait of a retry loop lasts 2.  When attempt k + 1 of a request
\* is about to be issued, k waits have been made for that request, one after
\* each failed attempt.  A wait is only made after the first or the second
\* failed attempt: a successful attempt goes on without one, and the run that
\* ends on the third failed attempt has made two.
C15_FixedBackoff ==
    /\ [](/\ \A k \in 1..Len(slept) : slept[k] = 2
          /\ pc \in GetStates => Len(slept) = tries /\ tries < 3
          /\ pc \in SleepStates =>
                Len(slept) = tries - 1 /\ tries \in {1, 2} /\ ~last_request.ok
          /\ pc = "playlist_parse" => last_request.ok /\ Len(slept) = tries - 1
          /\ pc = "exited" /\ printed \in FetchErrors =>
                tries = 3 /\ Len(slept) = 2)
    /\ [][/\ Len(slept') > Len(slept) =>
                /\ pc \in SleepStates
                /\ pc' \in GetStates
                /\ ~last_request.ok
                /\ last_request.n = Len(slept')
                /\ slept' = Append(slept, 2)
          /\ last_request' # last_request /\ last_request'.ok =>
                /\ Len(slept) = last_request'.n - 1
                /\ Len(slept') <= Len(slept)
                /\ pc' \notin SleepStates]_vars

\* C15: the third attempt of a segment is about to be issued, after two waits
\* of 2
C15_Witness ==
    /\ pc = "segment_get"
    /\ tries = 2
    /\ slept = <<2, 2>>

\* C16: the counter of a retry loop counts the failed attempts of the running
\* request only.  A request, the first playlist fetch, the fetch of a variant
\* or the fetch of a segment, begins with the counter at 0 whatever the
\* requests before it used; a failed attempt adds one; whenever a GET is
\* about to be issued the counter is the number of GETs issued for this
\* request and is below 3.
C16_PerRequestCounter ==
    /\ [](pc \in GetStates =>
             /\ attempt = tries
             /\ attempt \in 0..(max_attempts - 1))
    /\ [][/\ pc' = "playlist_get" /\ pc \in {"main", "playlist_parse"} =>
                attempt' = 0 /\ tries' = 0
          /\ pc' = "segment_get" /\ (pc = "playlist_parse" \/ index' # index) =>
                attempt' = 0 /\ tries' = 0
          /\ pc \in GetStates /\ pc' \in SleepStates =>
                attempt' = attempt + 1 /\ UNCHANGED <<m3u8_url, depth, index>>
          /\ pc \in SleepStates /\ pc' \in GetStates =>
                UNCHANGED <<attempt, m3u8_url, depth, index>>]_vars

\* C16: the second segment begins with the counter at 0 after the first
\* segment used two failed attempts and a third that succeeded
C16_Witness ==
    /\ pc = "segment_get"
    /\ index = 2
    /\ attempt = 0
    /\ tries = 0
    /\ last_request.kind = "segment"
    /\ last_request.url = segment_urls[1]
    /\ last_request.ok
    /\ last_request.n = 3

ResolutionStates == {"main", "playlist_get", "playlist_sleep", "playlist_parse"}

\* C17: while the playlists are resolved there is no segment list and no
\* segment was requested.  While segment i is fetched, the segments before i
\* and no others are written to their files, and nothing was requested
\* beyond i.  Concatenation begins with all the segments written, the
\* transcoder with the concatenated file written.  A step issues at most one
\* GET, from the one place the run is at, and the GET is over when the step
\* is: a segment GET is for segment i and nothing else.
C17_Sequential ==
    /\ [](/\ pc \in ResolutionStates =>
                /\ segment_urls = <<>> /\ requested = {}
                /\ segment_paths = <<>> /\ files = {}
          /\ pc \in {"segment_get", "segment_sleep"} =>
                /\ index \in 1..Len(segment_urls)
                /\ Len(segment_paths) = index - 1
                /\ 1..(index - 1) \subseteq requested
                /\ requested \subseteq 1..index
                /\ \A i \in 1..(index - 1) :
                      /\ exists(files, segment_paths[i])
                      /\ read(files, segment_paths[i]) = received[i]
                /\ ~exists(files, concatenated_path)
          /\ pc = "concatenate" =>
                /\ Len(segment_paths) = Len(segment_urls)
                /\ \A i \in 1..Len(segment_urls) :
                      /\ exists(files, segment_paths[i])
                      /\ read(files, segment_paths[i]) = received[i]
                /\ ~exists(files, concatenated_path)
          /\ pc = "convert" =>
                exists(files, concatenated_path) /\ transcoded = None
          /\ transcoded # None => pc = "exited")
    /\ [][/\ tries' = tries + 1 \/ requested' # requested =>
                pc \in GetStates
          /\ pc = "playlist_get" =>
                /\ last_request'.kind = "playlist"
                /\ last_request'.url = m3u8_url
                /\ requested' = requested
          /\ pc = "segment_get" =>
                /\ last_request'.kind = "segment"
                /\ last_request'.url = segment_urls[index]
                /\ requested' = requested \cup {index}
                /\ index' \in {index, index + 1}
                /\ index' = index + 1 =>
                      /\ last_request'.ok
                      /\ exists(files', segment_paths'[index])
          /\ pc \notin GetStates => last_request' = last_request
          /\ transcoded' # transcoded =>
                /\ pc = "convert"
                /\ transcoded' = Some(read(files, concatenated_path))]_vars

\* C17: the third segment is being requested with the first two in their
\* files
C17_Witness ==
    /\ pc = "segment_get"
    /\ index = 3
    /\ requested = {1, 2}
    /\ exists(files, segment_paths[1])
    /\ exists(files, segment_paths[2])

\* C18: when the first stream-info line of a master playlist is immediately
\* followed by a URI line, the URL of the recursive call is that URI resolved
\* against the URL the master playlist was fetched from, as a segment
\* reference would be.
C18_VariantAgainstFetchUrl ==
    [][pc = "playlist_parse" /\ pc' = "playlist_get" =>
          LET ls == LinesOf(content)
          IN  Renditions(ls) # {} /\ Min(Renditions(ls)) = first_hit(ls) =>
                 /\ last_request.url = m3u8_url
                 /\ m3u8_url' = urljoin(m3u8_url, strip(ls[first_hit(ls) + 1]))
                 /\ <<m3u8_url'>> = parse_segments(<<ls[first_hit(ls) + 1]>>, m3u8_url)]_vars

\* the extensions a segment file can get: every header set with a URL whose
\* path ends in .m4a and a URL without an extension
ExtensionUrls ==
    {<<"http:", "/", "/", "h", "/", "a", "/", "s", ".", "m4a">>,
     <<"http:", "/", "/", "o">>}
Extensions == {extension(h, u) : h \in HeaderSets, u \in ExtensionUrls}

\* the run of main's loop, of concatenate_segments and of the transcoder's
\* input for the bodies given, the file of segment i getting extension exts[i]
replay_paths(exts) == [i \in 1..Len(exts) |-> segment_path_of(i, exts[i])]

RECURSIVE replay_files(_, _, _)
replay_files(bodies, exts, n) ==
    IF n = 0 THEN {}
    ELSE put(replay_files(bodies, exts, n - 1), segment_path_of(n, exts[n]), bodies[n])

replay_stream(bodies, exts) ==
    concatenate_segments(replay_paths(exts), replay_files(bodies, exts, Len(bodies)))

\* the extensions of the files of the run
extensions_of(segment_paths_) == [i \in 1..Len(segment_paths_) |-> segment_paths_[i][3]]

C20_OnlySuccessfulResponses ==
    /\ [](/\ pc = "playlist_parse" =>
                /\ last_request.kind = "playlist"
                /\ last_request.url = m3u8_url
                /\ last_request.ok
                /\ raised = "none"
          /\ content # <<>> => pc = "playlist_parse"
          /\ pc \in SleepStates => attempt < max_attempts
          /\ raised # "UnboundLocalError"
          /\ printed = "An error occurred" => raised = "RecursionError")
    /\ [][/\ content' # content /\ content' # <<>> =>
                /\ pc = "playlist_get"
                /\ last_request'.kind = "playlist"
                /\ last_request'.ok
          /\ Len(segment_paths') > Len(segment_paths) =>
                /\ pc = "segment_get"
                /\ last_request' = [kind |-> "segment", url |-> segment_urls[index],
                                    ok |-> TRUE, n |-> tries + 1]
                /\ raised' = "none"
          /\ pc \in GetStates /\ ~last_request'.ok =>
                /\ UNCHANGED <<content, segment_paths, received, segment_urls>>
                /\ files' \subseteq files
                /\ pc' \in SleepStates \cup {"exited"}]_vars

\* C20: a segment was written from the third attempt, after two that failed
C20_Witness ==
    /\ segment_paths # <<>>
    /\ last_request.kind = "segment"
    /\ last_request.n = 3
    /\ last_request.ok
    /\ Len(segment_paths) \in requested
    /\ exists(files, segment_paths[Len(segment_paths)])

====
